---- MODULE Spec2Model ----
(***************************************************************************)
(* Model of the IDE shell (App component): the node tree (fileSystem), the *)
(* terminal's working-directory stack (termPath), the open tabs, and the   *)
(* command interpreter handleTerminalCommand with its asynchronous host    *)
(* operations.                                                             *)
(*                                                                         *)
(* Strings are modelled as sequences of tokens: a token is either one of   *)
(* the separator characters "_" and "." or a maximal run of other          *)
(* characters.  Concatenation is \o, so the id `${parent}_${name}` is      *)
(* parent \o <<"_">> \o name, and two strings are equal iff their token    *)
(* sequences are.  File contents are sequences of position-labelled        *)
(* characters.  An optional field (content?, children?, handle?) is a      *)
(* presence flag or sentinel next to the value.                            *)
(***************************************************************************)
EXTENDS Integers, Sequences, FiniteSets, TLC

VARIABLES
    projectState,   \* 'WELCOME' | 'EDITING'
    fileSystem,     \* FileSystemNode[] : the node tree
    termPath,       \* string[] : working-directory stack of node ids
    openTabs,       \* Tab[]
    activeTabId,    \* string | null
    pending,        \* suspended async handlers (awaiting a host operation)
    created,        \* number of create commands (mkdir, touch, code) accepted so far
    last            \* the most recent terminal step and the string it returned

vars == <<projectState, fileSystem, termPath, openTabs, activeTabId, pending, created, last>>

----------------------------------------------------------------------------
(* Bounds of the model *)

\* largest number of nodes created in a run (mkdir, touch, code, new file)
\* before a create command that goes to the host is accepted
MaxCreate == 2
\* largest number of nodes created in a run before a create command in a
\* Virtual directory is accepted
MaxCreateVirtual == 3
\* largest number of handlers suspended on a host operation at one time
MaxPending == 1
\* largest number of open tabs when a file is opened
MaxTabs == 2

----------------------------------------------------------------------------
(* Strings *)

US == <<"_">>
ROOT == <<"root">>
DotDot == <<".", ".">>
NoArg == <<>>          \* parts[1] undefined or '' (both falsy)
Null == <<>>           \* activeTabId null
Nil == [nil |-> TRUE]  \* "no node": null / undefined result of a lookup
NoHandle == "none"

\* the characters of a text of n characters, labelled by position
Chars(n) == [i \in 1..n |-> ToString(i)]

\* String.prototype.substring(0, n)
Substring0(s, n) == SubSeq(s, 1, IF Len(s) < n THEN Len(s) ELSE n)

\* index of the last occurrence of token t in s, 0 when absent
LastIndexOf(s, t) ==
    LET hits == {i \in 1..Len(s) : s[i] = t}
    IN  IF hits = {} THEN 0 ELSE CHOOSE i \in hits : \A j \in hits : j <= i

\* s.split(sep).pop() : the part of s after its last separator token
SplitPop(s, sep) == SubSeq(s, LastIndexOf(s, sep) + 1, Len(s))

\* toLowerCase on the tokens the model uses
ToLowerTok(t) ==
    CASE t = "README" -> "readme"
      [] t = "PNG" -> "png"
      [] t = "MD" -> "md"
      [] OTHER -> t

ToLowerCase(s) == [i \in 1..Len(s) |-> ToLowerTok(s[i])]

\* rank of a token in the collation localeCompare uses (punctuation first)
TokRank(t) ==
    LET order == <<"_", ".", "a", "b", "c", "css", "html", "index", "js", "md",
                   "README", "script", "style">>
    IN  IF \E k \in 1..Len(order) : order[k] = t
        THEN CHOOSE k \in 1..Len(order) : order[k] = t
        ELSE Len(order) + 1

\* a.localeCompare(b) < 0, token by token
RECURSIVE LocaleLess(_, _)
LocaleLess(s, t) ==
    IF t = <<>> THEN FALSE
    ELSE IF s = <<>> THEN TRUE
    ELSE IF TokRank(Head(s)) # TokRank(Head(t)) THEN TokRank(Head(s)) < TokRank(Head(t))
    ELSE LocaleLess(Tail(s), Tail(t))

\* Array.prototype.join over a sequence of strings
RECURSIVE Join(_, _)
Join(strs, sep) ==
    IF strs = <<>> THEN <<>>
    ELSE IF Len(strs) = 1 THEN strs[1]
    ELSE strs[1] \o sep \o Join(Tail(strs), sep)

----------------------------------------------------------------------------
(* File classification *)

getLanguageFromExtension(filename) ==
    LET ext == ToLowerCase(SplitPop(filename, "."))
        x == IF Len(ext) = 1 THEN ext[1] ELSE ""
    IN  CASE x \in {"js", "mjs"} -> "javascript"
          [] x = "ts" -> "typescript"
          [] x = "tsx" -> "tsx"
          [] x = "jsx" -> "jsx"
          [] x \in {"html", "htm"} -> "html"
          [] x = "css" -> "css"
          [] x = "scss" -> "scss"
          [] x = "less" -> "less"
          [] x = "json" -> "json"
          [] x = "py" -> "python"
          [] x \in {"java", "class"} -> "java"
          [] x \in {"c", "h"} -> "c"
          [] x = "cpp" -> "cpp"
          [] x = "cs" -> "csharp"
          [] x = "go" -> "go"
          [] x = "rs" -> "rust"
          [] x = "php" -> "php"
          [] x = "sql" -> "sql"
          [] x = "xml" -> "xml"
          [] x \in {"yaml", "yml"} -> "yaml"
          [] x = "svg" -> "xml"
          [] x \in {"md", "txt", "gitignore", "env"} -> "text"
          [] x = "csv" -> "csv"
          [] x \in {"ini", "cfg", "conf"} -> "ini"
          [] x \in {"dll", "sys", "dat", "tmp"} -> "system"
          [] x \in {"doc", "docx", "rtf", "odt"} -> "document"
          [] x = "pdf" -> "pdf"
          [] x \in {"xls", "xlsx", "ods"} -> "spreadsheet"
          [] x \in {"png", "jpg", "jpeg", "gif", "webp", "bmp", "ico", "tiff", "tif"} -> "image"
          [] x \in {"mp3", "wav", "ogg", "flac", "aac"} -> "audio"
          [] x \in {"mp4", "webm", "mkv", "mov", "avi", "wmv"} -> "video"
          [] x \in {"zip", "rar", "7z", "tar", "gz", "tgz"} -> "archive"
          [] x \in {"exe", "msi", "bin", "app", "deb", "rpm"} -> "executable"
          [] OTHER -> "text"

isMediaOrBinary(lang) ==
    lang \in {"image", "audio", "video", "pdf", "binary", "system", "document",
              "spreadsheet", "archive", "executable"}

----------------------------------------------------------------------------
(* Nodes *)

\* interface FileSystemNode; hasContent / hasChildren say whether the optional
\* field is defined, handle = NoHandle says the node has no host capability,
\* language = "" says it is undefined
FileNode(id, name, parentId, hasContent, content, handle, language) ==
    [id |-> id, name |-> name, type |-> "FILE", parentId |-> parentId,
     hasContent |-> hasContent, content |-> content,
     hasChildren |-> FALSE, children |-> <<>>,
     handle |-> handle, language |-> language, isOpen |-> FALSE]

FolderNode(id, name, parentId, children, handle, isOpen) ==
    [id |-> id, name |-> name, type |-> "FOLDER", parentId |-> parentId,
     hasContent |-> FALSE, content |-> <<>>,
     hasChildren |-> TRUE, children |-> children,
     handle |-> handle, language |-> "", isOpen |-> isOpen]

\* lengths of the seeded contents
LenIndexHtml == 1528
LenStyleCss == 112
LenScriptJs == 52
LenReadmeMd == 122

DEFAULT_FILES ==
    << FolderNode(ROOT, <<"Project">>, Null,
         << FileNode(<<"index", "_", "html">>, <<"index", ".", "html">>, ROOT,
                     TRUE, Chars(LenIndexHtml), NoHandle, "html"),
            FileNode(<<"style", "_", "css">>, <<"style", ".", "css">>, ROOT,
                     TRUE, Chars(LenStyleCss), NoHandle, "css"),
            FileNode(<<"script", "_", "js">>, <<"script", ".", "js">>, ROOT,
                     TRUE, Chars(LenScriptJs), NoHandle, "javascript"),
            FileNode(<<"readme", "_", "md">>, <<"README", ".", "md">>, ROOT,
                     TRUE, Chars(LenReadmeMd), NoHandle, "markdown") >>,
         NoHandle, TRUE) >>

----------------------------------------------------------------------------
(* Node tree helpers *)

RECURSIVE findNode(_, _)
findNode(nodes, id) ==
    IF nodes = <<>> THEN Nil
    ELSE LET node == Head(nodes)
         IN  IF node.id = id THEN node
             ELSE LET found == IF node.hasChildren THEN findNode(node.children, id) ELSE Nil
                  IN  IF found # Nil THEN found ELSE findNode(Tail(nodes), id)

RECURSIVE addNodeToTree(_, _, _)
addNodeToTree(nodes, parentId, newNode) ==
    [i \in 1..Len(nodes) |->
        LET node == nodes[i]
        IN  IF node.id = parentId
            THEN [node EXCEPT !.children = Append(node.children, newNode),
                              !.hasChildren = TRUE,
                              !.isOpen = TRUE]
            ELSE IF node.hasChildren
            THEN [node EXCEPT !.children = addNodeToTree(node.children, parentId, newNode)]
            ELSE node]

RECURSIVE removeNodeFromTree(_, _)
removeNodeFromTree(nodes, nodeId) ==
    LET keep(n) == n.id # nodeId
        kept == SelectSeq(nodes, keep)
    IN  [i \in 1..Len(kept) |->
            LET node == kept[i]
            IN  IF node.hasChildren
                THEN [node EXCEPT !.children = removeNodeFromTree(node.children, nodeId)]
                ELSE node]

\* findContent of getFileContent: null, or the string found; a found ""
\* is falsy for `if (found)`
NullContent == [isNull |-> TRUE, content |-> <<>>]

RECURSIVE findContent(_, _)
findContent(nodes, fileName) ==
    IF nodes = <<>> THEN NullContent
    ELSE LET node == Head(nodes)
             found == IF node.hasChildren THEN findContent(node.children, fileName)
                      ELSE NullContent
         IN  IF node.name = fileName /\ node.hasContent
             THEN [isNull |-> FALSE, content |-> node.content]
             ELSE IF ~found.isNull /\ found.content # <<>> THEN found
             ELSE findContent(Tail(nodes), fileName)

\* all node occurrences of the tree, in depth-first pre-order
RECURSIVE AllNodes(_)
AllNodes(nodes) ==
    IF nodes = <<>> THEN <<>>
    ELSE <<Head(nodes)>>
         \o (IF Head(nodes).hasChildren THEN AllNodes(Head(nodes).children) ELSE <<>>)
         \o AllNodes(Tail(nodes))

NodeCount(nodes) == Len(AllNodes(nodes))

\* Array.prototype.find over the children of a node that may be missing
\* (node?.children?.find(test)): the first child passing the test, or Nil
FindChild(node, test(_)) ==
    IF node = Nil THEN Nil
    ELSE IF ~node.hasChildren THEN Nil
    ELSE LET hits == {i \in 1..Len(node.children) : test(node.children[i])}
         IN  IF hits = {} THEN Nil
             ELSE node.children[CHOOSE i \in hits : \A j \in hits : i <= j]

----------------------------------------------------------------------------
(* Host file system: what the native capabilities may answer *)

\* a host entry; throws: handling the entry throws inside the loop body;
\* failsAt: 0 when the listing of a directory runs to its end, k when the
\* enumeration throws as the k-th entry is asked for
RestrictedEntry(name, kind, entries, throws, failsAt) ==
    [name |-> name, kind |-> kind, entries |-> entries, throws |-> throws,
     failsAt |-> failsAt]

HostEntry(name, kind, entries) == RestrictedEntry(name, kind, entries, FALSE, 0)

\* the directories showDirectoryPicker may hand over, entries in the order
\* the host enumerates them
HostDirs ==
    { HostEntry(<<"proj">>, "directory",
        << HostEntry(<<"b">>, "file", <<>>),
           HostEntry(<<"a">>, "directory", << HostEntry(<<"b">>, "file", <<>>) >>) >>) }

NameC == <<"c">>

\* directories of which the host refuses a part
RestrictedDirs ==
    { \* b cannot be handled, the listing of a throws after its first entry
      RestrictedEntry(<<"proj">>, "directory",
        << RestrictedEntry(<<"b">>, "file", <<>>, TRUE, 0),
           RestrictedEntry(<<"a">>, "directory",
              << HostEntry(<<"b">>, "file", <<>>), HostEntry(NameC, "file", <<>>) >>,
              FALSE, 2),
           HostEntry(NameC, "file", <<>>) >>, FALSE, 0),
      \* a/b cannot be handled, the listing of a throws at once in the
      \* second directory
      RestrictedEntry(<<"proj">>, "directory",
        << RestrictedEntry(<<"a">>, "directory",
              << RestrictedEntry(<<"b">>, "file", <<>>, TRUE, 0),
                 HostEntry(NameC, "file", <<>>) >>, FALSE, 0),
           HostEntry(<<"b">>, "file", <<>>) >>, FALSE, 0),
      RestrictedEntry(<<"proj">>, "directory",
        << RestrictedEntry(<<"a">>, "directory",
              << HostEntry(<<"b">>, "file", <<>>) >>, FALSE, 1),
           HostEntry(<<"b">>, "file", <<>>) >>, FALSE, 0),
      \* the directory a cannot be handled
      RestrictedEntry(<<"proj">>, "directory",
        << RestrictedEntry(<<"a">>, "directory",
              << HostEntry(<<"b">>, "file", <<>>) >>, TRUE, 0),
           HostEntry(<<"b">>, "file", <<>>) >>, FALSE, 0),
      \* the listing of the picked directory throws after its entries
      RestrictedEntry(<<"proj">>, "directory",
        << HostEntry(<<"b">>, "file", <<>>),
           HostEntry(<<"a">>, "directory", << HostEntry(<<"b">>, "file", <<>>) >>) >>,
        FALSE, 3) }

\* comparator of the sort in processDirectoryHandle: TRUE when x goes before y
SortBefore(x, y) ==
    IF x.type = y.type THEN LocaleLess(x.name, y.name)
    ELSE x.type = "FOLDER"

\* Array.prototype.sort with that comparator (stable insertion)
RECURSIVE SortNodes(_)
SortNodes(nodes) ==
    IF nodes = <<>> THEN <<>>
    ELSE LET rest == SortNodes(SubSeq(nodes, 1, Len(nodes) - 1))
             x == nodes[Len(nodes)]
             after == {i \in 1..Len(rest) : SortBefore(x, rest[i])}
             pos == IF after = {} THEN Len(rest) + 1
                    ELSE CHOOSE i \in after : \A j \in after : i <= j
         IN  SubSeq(rest, 1, pos - 1) \o <<x>> \o SubSeq(rest, pos, Len(rest))

RECURSIVE processDirectoryHandle(_, _)

\* nodes after the first n turns of the loop over dirHandle.values(): an
\* entry whose handling throws is skipped by the inner catch
RECURSIVE Collected(_, _, _)
Collected(dirHandle, parentId, n) ==
    IF n = 0 THEN <<>>
    ELSE LET entry == dirHandle.entries[n]
             before == Collected(dirHandle, parentId, n - 1)
             id == parentId \o US \o entry.name
         IN  IF entry.throws THEN before
             ELSE IF entry.kind = "file"
             THEN Append(before, FileNode(id, entry.name, parentId, FALSE, <<>>, "file",
                                          getLanguageFromExtension(entry.name)))
             ELSE Append(before, FolderNode(id, entry.name, parentId,
                                            processDirectoryHandle(entry, id),
                                            "directory", FALSE))

\* processDirectoryHandle handing back what was collected before the
\* enumeration threw
processDirectoryHandleKeepsPartial(dirHandle, parentId) ==
    SortNodes(Collected(dirHandle, parentId,
                        IF dirHandle.failsAt # 0 THEN dirHandle.failsAt - 1
                        ELSE Len(dirHandle.entries)))

\* the outer catch returns [] whatever was collected; otherwise the nodes
\* are sorted, folders first
processDirectoryHandle(dirHandle, parentId) ==
    IF dirHandle.failsAt # 0 THEN <<>>
    ELSE SortNodes(Collected(dirHandle, parentId, Len(dirHandle.entries)))

----------------------------------------------------------------------------
(* Terminal: the state a command sees *)

currentDirId == termPath[Len(termPath)]
currentDirNode == findNode(fileSystem, currentDirId)

\* what the terminal step did: command, argument, phase ("done" when the
\* string was returned, "pending" while suspended on the host), the host
\* outcome ("none", "ok", "fail"), the returned string and whether the step
\* had the host decode the whole of a file as text (File.text())
Step(cmd, arg, phase, host, result) ==
    [cmd |-> cmd, arg |-> arg, phase |-> phase, host |-> host, result |-> result,
     decoded |-> FALSE]

NoStep == Step("", NoArg, "none", "none", <<>>)

DirectoryLost == <<"Error: Current directory lost.">>

\* the current-directory string handed to the terminal prompt
currentTermDirName ==
    LET tail == SplitPop(termPath[Len(termPath)], "_")
    IN  IF tail = <<>> THEN <<"project">> ELSE tail

\* the content the preview is given for a file name
getFileContent(fileName) ==
    LET found == findContent(fileSystem, fileName)
    IN  IF found.isNull \/ found.content = <<>> THEN <<>> ELSE found.content

----------------------------------------------------------------------------
Init ==
    /\ projectState = "WELCOME"
    /\ fileSystem = <<>>
    /\ termPath = <<ROOT>>
    /\ openTabs = <<>>
    /\ activeTabId = Null
    /\ pending = <<>>
    /\ created = 0
    /\ last = NoStep


----------------------------------------------------------------------------
(* Project actions *)

Tab(id, title, isDirty) == [id |-> id, title |-> title, isDirty |-> isDirty]

\* WelcomeScreen onCreateProject
createVirtualProject ==
    /\ projectState = "WELCOME"
    /\ fileSystem' = DEFAULT_FILES
    /\ projectState' = "EDITING"
    /\ termPath' = <<ROOT>>
    /\ LET defaultFile == DEFAULT_FILES[1].children[1]
       IN  /\ openTabs' = <<Tab(defaultFile.id, defaultFile.name, FALSE)>>
           /\ activeTabId' = defaultFile.id
    /\ last' = NoStep
    /\ UNCHANGED <<pending, created>>

\* WelcomeScreen / MenuBar onOpenFolder, the picker handing over dirHandle
openRealFolder(dirHandle) ==
    /\ LET nodes == processDirectoryHandle(dirHandle, ROOT)
       IN  fileSystem' = <<FolderNode(ROOT, dirHandle.name, Null, nodes, "directory", TRUE)>>
    /\ projectState' = "EDITING"
    /\ termPath' = <<ROOT>>
    /\ last' = NoStep
    /\ UNCHANGED <<openTabs, activeTabId, pending, created>>

----------------------------------------------------------------------------
(* Suspended handlers *)

\* a handler suspended at an await: the operation, the command word and
\* argument, and what its closure captured before suspending
Suspended(op, cmd, arg, dirId, targetId, node, tabs) ==
    [op |-> op, cmd |-> cmd, arg |-> arg, dirId |-> dirId, targetId |-> targetId,
     node |-> node, tabs |-> tabs]

RemoveAt(s, i) == SubSeq(s, 1, i - 1) \o SubSeq(s, i + 1, Len(s))

\* the error text interpolated by `${e}`
ErrText == <<"<e>">>

\* what getFile() may answer for a file capability
HostFile(size, text) == [size |-> size, text |-> text]
HostFiles == { HostFile(0, Chars(0)), HostFile(600, Chars(600)) }

----------------------------------------------------------------------------
(* handleTerminalCommand: commands that return without awaiting *)

Returned(cmd, arg, result) == last' = Step(cmd, arg, "done", "none", result)

\* case 'ls'
TermLs ==
    /\ projectState = "EDITING"
    /\ LET dir == currentDirNode
           render(c) == IF c.type = "FOLDER" THEN <<"[">> \o c.name \o <<"]">> ELSE c.name
       IN  Returned("ls", NoArg,
              IF dir = Nil THEN <<>>
              ELSE IF ~dir.hasChildren THEN <<>>
              ELSE Join([i \in 1..Len(dir.children) |-> render(dir.children[i])], <<"  ">>))
    /\ UNCHANGED <<projectState, fileSystem, termPath, openTabs, activeTabId, pending, created>>

\* case 'pwd'
TermPwd ==
    /\ projectState = "EDITING"
    /\ Returned("pwd", NoArg,
          IF currentDirNode = Nil THEN DirectoryLost
          ELSE <<"/">> \o Join(termPath, <<"/">>))
    /\ UNCHANGED <<projectState, fileSystem, termPath, openTabs, activeTabId, pending, created>>

\* TermCd matching a child of any kind
TermCdAnyKind(arg) ==
    /\ projectState = "EDITING"
    /\ LET dir == currentDirNode
           isTarget(c) == c.name = arg
           targetFolder == FindChild(dir, isTarget)
       IN  IF dir = Nil THEN
                Returned("cd", arg, DirectoryLost) /\ UNCHANGED termPath
           ELSE IF arg = NoArg THEN
                Returned("cd", arg, <<>>) /\ UNCHANGED termPath
           ELSE IF arg = DotDot THEN
                IF Len(termPath) > 1
                THEN /\ termPath' = SubSeq(termPath, 1, Len(termPath) - 1)
                     /\ Returned("cd", arg, <<>>)
                ELSE Returned("cd", arg, <<"Already at root">>) /\ UNCHANGED termPath
           ELSE IF targetFolder # Nil THEN
                /\ termPath' = Append(termPath, targetFolder.id)
                /\ Returned("cd", arg, <<>>)
           ELSE Returned("cd", arg, <<"cd: no such file or directory: ">> \o arg)
                /\ UNCHANGED termPath
    /\ UNCHANGED <<projectState, fileSystem, openTabs, activeTabId, pending, created>>

\* TermCd popping the stack whatever its length
TermCdPopsAtRoot(arg) ==
    /\ projectState = "EDITING"
    /\ LET dir == currentDirNode
           isTarget(c) == c.name = arg /\ c.type = "FOLDER"
           targetFolder == FindChild(dir, isTarget)
       IN  IF dir = Nil THEN
                Returned("cd", arg, DirectoryLost) /\ UNCHANGED termPath
           ELSE IF arg = NoArg THEN
                Returned("cd", arg, <<>>) /\ UNCHANGED termPath
           ELSE IF arg = DotDot THEN
                /\ termPath' = SubSeq(termPath, 1, Len(termPath) - 1)
                /\ Returned("cd", arg, <<>>)
           ELSE IF targetFolder # Nil THEN
                /\ termPath' = Append(termPath, targetFolder.id)
                /\ Returned("cd", arg, <<>>)
           ELSE Returned("cd", arg, <<"cd: no such file or directory: ">> \o arg)
                /\ UNCHANGED termPath
    /\ UNCHANGED <<projectState, fileSystem, openTabs, activeTabId, pending, created>>

\* case 'cd'
TermCd(arg) ==
    /\ projectState = "EDITING"
    /\ LET dir == currentDirNode
           isTarget(c) == c.name = arg /\ c.type = "FOLDER"
           targetFolder == FindChild(dir, isTarget)
       IN  IF dir = Nil THEN
                Returned("cd", arg, DirectoryLost) /\ UNCHANGED termPath
           ELSE IF arg = NoArg THEN
                Returned("cd", arg, <<>>) /\ UNCHANGED termPath
           ELSE IF arg = DotDot THEN
                IF Len(termPath) > 1
                THEN /\ termPath' = SubSeq(termPath, 1, Len(termPath) - 1)
                     /\ Returned("cd", arg, <<>>)
                ELSE Returned("cd", arg, <<"Already at root">>) /\ UNCHANGED termPath
           ELSE IF targetFolder # Nil THEN
                /\ termPath' = Append(termPath, targetFolder.id)
                /\ Returned("cd", arg, <<>>)
           ELSE Returned("cd", arg, <<"cd: no such file or directory: ">> \o arg)
                /\ UNCHANGED termPath
    /\ UNCHANGED <<projectState, fileSystem, openTabs, activeTabId, pending, created>>

\* case 'clear'
TermClear ==
    /\ projectState = "EDITING"
    /\ Returned("clear", NoArg, IF currentDirNode = Nil THEN DirectoryLost ELSE <<>>)
    /\ UNCHANGED <<projectState, fileSystem, termPath, openTabs, activeTabId, pending, created>>

\* case 'npm'
TermNpm(arg) ==
    /\ projectState = "EDITING"
    /\ Returned("npm", arg,
          IF currentDirNode = Nil THEN DirectoryLost
          ELSE IF arg = <<"install">> \/ arg = <<"i">> THEN <<"added 142 packages in 2s">>
          ELSE <<"npm command not fully simulated.">>)
    /\ UNCHANGED <<projectState, fileSystem, termPath, openTabs, activeTabId, pending, created>>

\* case 'echo', rest = parts.slice(1)
TermEcho(rest) ==
    /\ projectState = "EDITING"
    /\ Returned("echo", IF rest = <<>> THEN NoArg ELSE rest[1],
          IF currentDirNode = Nil THEN DirectoryLost ELSE Join(rest, <<" ">>))
    /\ UNCHANGED <<projectState, fileSystem, termPath, openTabs, activeTabId, pending, created>>

\* default
TermUnknown(command) ==
    /\ projectState = "EDITING"
    /\ Returned(command, NoArg,
          IF currentDirNode = Nil THEN DirectoryLost
          ELSE <<"command not found: ">> \o <<command>>)
    /\ UNCHANGED <<projectState, fileSystem, termPath, openTabs, activeTabId, pending, created>>


----------------------------------------------------------------------------
(* handleTerminalCommand: mkdir, touch/code, rm, cat.  In a directory with a *)
(* host capability the handler suspends at its await; the continuation is  *)
(* a separate step that resumes with what the closure captured.            *)

Suspend(op, cmd, arg, dirId, targetId) ==
    /\ pending' = Append(pending, Suspended(op, cmd, arg, dirId, targetId, Nil, <<>>))
    /\ last' = Step(cmd, arg, "pending", "none", <<>>)

\* the node mkdir adds
NewFolder(dirId, arg, handle) ==
    FolderNode(dirId \o US \o arg, arg, dirId, <<>>, handle, FALSE)

\* the node touch / code adds
NewFile(dirId, arg, handle) ==
    FileNode(dirId \o US \o arg, arg, dirId, TRUE, <<>>, handle,
             getLanguageFromExtension(arg))

\* TermMkdir without the directory-lost return ahead of the switch
TermMkdirUnguarded(arg) ==
    /\ projectState = "EDITING"
    /\ LET dir == currentDirNode
       IN  IF arg = NoArg THEN
                Returned("mkdir", arg, <<"usage: mkdir <directory_name>">>)
                /\ UNCHANGED <<fileSystem, pending, created>>
           ELSE IF dir = Nil THEN
                Returned("mkdir", arg, <<"Error">>) /\ UNCHANGED <<fileSystem, pending, created>>
           ELSE IF dir.handle # NoHandle THEN
                /\ Len(pending) < MaxPending
                /\ created < MaxCreate
                /\ created' = created + 1
                /\ Suspend("mkdir", "mkdir", arg, dir.id, Null)
                /\ UNCHANGED fileSystem
           ELSE /\ created < MaxCreateVirtual
                /\ created' = created + 1
                /\ fileSystem' = addNodeToTree(fileSystem, dir.id, NewFolder(dir.id, arg, NoHandle))
                /\ Returned("mkdir", arg, <<"Virtual directory '">> \o arg \o <<"' created.">>)
                /\ UNCHANGED pending
    /\ UNCHANGED <<projectState, termPath, openTabs, activeTabId>>

\* case 'mkdir', up to the await or the return
TermMkdir(arg) ==
    /\ projectState = "EDITING"
    /\ LET dir == currentDirNode
       IN  IF dir = Nil THEN
                Returned("mkdir", arg, DirectoryLost) /\ UNCHANGED <<fileSystem, pending, created>>
           ELSE IF arg = NoArg THEN
                Returned("mkdir", arg, <<"usage: mkdir <directory_name>">>)
                /\ UNCHANGED <<fileSystem, pending, created>>
           ELSE IF dir.handle # NoHandle THEN
                /\ Len(pending) < MaxPending
                /\ created < MaxCreate
                /\ created' = created + 1
                /\ Suspend("mkdir", "mkdir", arg, dir.id, Null)
                /\ UNCHANGED fileSystem
           ELSE /\ created < MaxCreateVirtual
                /\ created' = created + 1
                /\ fileSystem' = addNodeToTree(fileSystem, dir.id, NewFolder(dir.id, arg, NoHandle))
                /\ Returned("mkdir", arg, <<"Virtual directory '">> \o arg \o <<"' created.">>)
                /\ UNCHANGED pending
    /\ UNCHANGED <<projectState, termPath, openTabs, activeTabId>>

\* mkdir: getDirectoryHandle resolved
MkdirResolved(i) ==
    /\ i \in 1..Len(pending)
    /\ pending[i].op = "mkdir"
    /\ LET p == pending[i]
       IN  /\ fileSystem' = addNodeToTree(fileSystem, p.dirId, NewFolder(p.dirId, p.arg, "directory"))
           /\ last' = Step(p.cmd, p.arg, "done", "ok",
                           <<"Directory '">> \o p.arg \o <<"' created.">>)
    /\ pending' = RemoveAt(pending, i)
    /\ UNCHANGED <<projectState, termPath, openTabs, activeTabId, created>>

\* mkdir: getDirectoryHandle threw
MkdirRejected(i) ==
    /\ i \in 1..Len(pending)
    /\ pending[i].op = "mkdir"
    /\ LET p == pending[i]
       IN  last' = Step(p.cmd, p.arg, "done", "fail",
                        <<"Error creating directory on disk: ">> \o ErrText)
    /\ pending' = RemoveAt(pending, i)
    /\ UNCHANGED <<projectState, fileSystem, termPath, openTabs, activeTabId, created>>

\* case 'touch' / case 'code', up to the await or the return
TermTouch(command, arg) ==
    /\ projectState = "EDITING"
    /\ LET dir == currentDirNode
       IN  IF dir = Nil THEN
                Returned(command, arg, DirectoryLost) /\ UNCHANGED <<fileSystem, pending, created>>
           ELSE IF arg = NoArg THEN
                Returned(command, arg, <<"usage: touch <filename>">>)
                /\ UNCHANGED <<fileSystem, pending, created>>
           ELSE IF dir.handle # NoHandle THEN
                /\ Len(pending) < MaxPending
                /\ created < MaxCreate
                /\ created' = created + 1
                /\ Suspend("touch", command, arg, dir.id, Null)
                /\ UNCHANGED fileSystem
           ELSE /\ created < MaxCreateVirtual
                /\ created' = created + 1
                /\ fileSystem' = addNodeToTree(fileSystem, dir.id, NewFile(dir.id, arg, NoHandle))
                /\ Returned(command, arg, <<"Virtual file '">> \o arg \o <<"' created.">>)
                /\ UNCHANGED pending
    /\ UNCHANGED <<projectState, termPath, openTabs, activeTabId>>

\* touch: getFileHandle resolved
TouchResolved(i) ==
    /\ i \in 1..Len(pending)
    /\ pending[i].op = "touch"
    /\ LET p == pending[i]
       IN  /\ fileSystem' = addNodeToTree(fileSystem, p.dirId, NewFile(p.dirId, p.arg, "file"))
           /\ last' = Step(p.cmd, p.arg, "done", "ok",
                           <<"File '">> \o p.arg \o <<"' created.">>)
    /\ pending' = RemoveAt(pending, i)
    /\ UNCHANGED <<projectState, termPath, openTabs, activeTabId, created>>

\* touch: getFileHandle threw
TouchRejected(i) ==
    /\ i \in 1..Len(pending)
    /\ pending[i].op = "touch"
    /\ LET p == pending[i]
       IN  last' = Step(p.cmd, p.arg, "done", "fail",
                        <<"Error creating file on disk: ">> \o ErrText)
    /\ pending' = RemoveAt(pending, i)
    /\ UNCHANGED <<projectState, fileSystem, termPath, openTabs, activeTabId, created>>

\* the tail of case 'rm': the two state updates and the return
RmApply(targetId) ==
    LET keep(t) == t.id # targetId
    IN  /\ fileSystem' = removeNodeFromTree(fileSystem, targetId)
        /\ openTabs' = SelectSeq(openTabs, keep)

\* case 'rm', up to the await or the return
TermRm(arg) ==
    /\ projectState = "EDITING"
    /\ LET dir == currentDirNode
           isTarget(c) == c.name = arg
           targetNode == FindChild(dir, isTarget)
       IN  IF dir = Nil THEN
                Returned("rm", arg, DirectoryLost)
                /\ UNCHANGED <<fileSystem, openTabs, pending>>
           ELSE IF arg = NoArg THEN
                Returned("rm", arg, <<"usage: rm <filename>">>)
                /\ UNCHANGED <<fileSystem, openTabs, pending>>
           ELSE IF targetNode = Nil THEN
                Returned("rm", arg, <<"rm: ">> \o arg \o <<": No such file or directory">>)
                /\ UNCHANGED <<fileSystem, openTabs, pending>>
           ELSE IF dir.handle # NoHandle THEN
                /\ Len(pending) < MaxPending
                /\ Suspend("rm", "rm", arg, dir.id, targetNode.id)
                /\ UNCHANGED <<fileSystem, openTabs>>
           ELSE /\ RmApply(targetNode.id)
                /\ Returned("rm", arg, <<>>)
                /\ UNCHANGED pending
    /\ UNCHANGED <<projectState, termPath, activeTabId, created>>

\* rm: removeEntry resolved
RmResolved(i) ==
    /\ i \in 1..Len(pending)
    /\ pending[i].op = "rm"
    /\ LET p == pending[i]
       IN  /\ RmApply(p.targetId)
           /\ last' = Step(p.cmd, p.arg, "done", "ok", <<>>)
    /\ pending' = RemoveAt(pending, i)
    /\ UNCHANGED <<projectState, termPath, activeTabId, created>>

\* RmRejected with the catch falling through to the removal
RmRejectedFallsThrough(i) ==
    /\ i \in 1..Len(pending)
    /\ pending[i].op = "rm"
    /\ LET p == pending[i]
       IN  /\ RmApply(p.targetId)
           /\ last' = Step(p.cmd, p.arg, "done", "fail",
                           <<"Error deleting from disk: ">> \o ErrText)
    /\ pending' = RemoveAt(pending, i)
    /\ UNCHANGED <<projectState, termPath, activeTabId, created>>

\* rm: removeEntry threw
RmRejected(i) ==
    /\ i \in 1..Len(pending)
    /\ pending[i].op = "rm"
    /\ LET p == pending[i]
       IN  last' = Step(p.cmd, p.arg, "done", "fail",
                        <<"Error deleting from disk: ">> \o ErrText)
    /\ pending' = RemoveAt(pending, i)
    /\ UNCHANGED <<projectState, fileSystem, termPath, openTabs, activeTabId, created>>

\* number of characters cat shows
CatLimit == 500

\* language?.toUpperCase() of the media / binary classes
ToUpperLang(lang) ==
    CASE lang = "image" -> "IMAGE"
      [] lang = "audio" -> "AUDIO"
      [] lang = "video" -> "VIDEO"
      [] lang = "pdf" -> "PDF"
      [] lang = "binary" -> "BINARY"
      [] lang = "system" -> "SYSTEM"
      [] lang = "document" -> "DOCUMENT"
      [] lang = "spreadsheet" -> "SPREADSHEET"
      [] lang = "archive" -> "ARCHIVE"
      [] lang = "executable" -> "EXECUTABLE"
      [] OTHER -> lang

\* cat of resident content
CatResident(fileToRead) ==
    LET content == IF fileToRead.hasContent THEN fileToRead.content ELSE <<>>
    IN  Substring0(content, CatLimit) \o (IF Len(content) > CatLimit THEN <<"...">> ELSE <<>>)

\* case 'cat', up to the await or the return
TermCat(arg) ==
    /\ projectState = "EDITING"
    /\ LET dir == currentDirNode
           isTarget(c) == c.name = arg /\ c.type = "FILE"
           fileToRead == FindChild(dir, isTarget)
       IN  IF dir = Nil THEN
                Returned("cat", arg, DirectoryLost) /\ UNCHANGED pending
           ELSE IF arg = NoArg THEN
                Returned("cat", arg, <<"Usage: cat <filename>">>) /\ UNCHANGED pending
           ELSE IF fileToRead = Nil THEN
                Returned("cat", arg, <<"File not found: ">> \o arg) /\ UNCHANGED pending
           ELSE IF isMediaOrBinary(fileToRead.language) THEN
                Returned("cat", arg, <<"[", ToUpperLang(fileToRead.language), " File]">>)
                /\ UNCHANGED pending
           ELSE IF fileToRead.handle # NoHandle /\ ~fileToRead.hasContent THEN
                /\ Len(pending) < MaxPending
                /\ Suspend("cat", "cat", arg, dir.id, fileToRead.id)
           ELSE Returned("cat", arg, CatResident(fileToRead)) /\ UNCHANGED pending
    /\ UNCHANGED <<projectState, fileSystem, termPath, openTabs, activeTabId, created>>

\* cat: getFile and text resolved with host file f
CatResolved(i, f) ==
    /\ i \in 1..Len(pending)
    /\ pending[i].op = "cat"
    /\ LET p == pending[i]
       IN  last' = [Step(p.cmd, p.arg, "done", "ok", Substring0(f.text, CatLimit))
                       EXCEPT !.decoded = TRUE]
    /\ pending' = RemoveAt(pending, i)
    /\ UNCHANGED <<projectState, fileSystem, termPath, openTabs, activeTabId, created>>

\* CatRejected with the rejection escaping: the call ends without a string
CatRejectedUncaught(i) ==
    /\ i \in 1..Len(pending)
    /\ pending[i].op = "cat"
    /\ last' = NoStep
    /\ pending' = RemoveAt(pending, i)
    /\ UNCHANGED <<projectState, fileSystem, termPath, openTabs, activeTabId, created>>

\* cat: getFile or text threw
CatRejected(i) ==
    /\ i \in 1..Len(pending)
    /\ pending[i].op = "cat"
    /\ LET p == pending[i]
       IN  last' = Step(p.cmd, p.arg, "done", "fail", <<"Error reading file">>)
    /\ pending' = RemoveAt(pending, i)
    /\ UNCHANGED <<projectState, fileSystem, termPath, openTabs, activeTabId, created>>

----------------------------------------------------------------------------
(* handleFileClick *)

\* text files above this size are not decoded
MaxTextSize == 5 * 1024 * 1024

TooLarge == <<"File is too large to display in editor.">>
ObjectUrl == <<"blob:">>

RECURSIVE updateContent(_, _, _)
updateContent(nodes, id, content) ==
    [i \in 1..Len(nodes) |->
        LET n == nodes[i]
        IN  IF n.id = id THEN [n EXCEPT !.content = content, !.hasContent = TRUE]
            ELSE IF n.hasChildren
            THEN [n EXCEPT !.children = updateContent(n.children, id, content)]
            ELSE n]

\* the tail of handleFileClick: the tab is added to the openTabs value the
\* closure captured (tabs), and the node becomes the active tab
OpenTab(node, tabs) ==
    /\ openTabs' = IF \E k \in 1..Len(tabs) : tabs[k].id = node.id
                   THEN openTabs
                   ELSE Append(tabs, Tab(node.id, node.name, FALSE))
    /\ activeTabId' = node.id

\* the FILE nodes the tree view offers for a click
ClickableNodes ==
    {AllNodes(fileSystem)[k] : k \in {j \in 1..NodeCount(fileSystem) :
                                         AllNodes(fileSystem)[j].type = "FILE"}}

\* handleFileClick up to the await or the end
handleFileClick(node) ==
    /\ projectState = "EDITING"
    /\ node \in ClickableNodes
    /\ Len(openTabs) < MaxTabs
    /\ IF node.handle # NoHandle /\ node.type = "FILE" /\ ~node.hasContent
       THEN /\ Len(pending) < MaxPending
            /\ pending' = Append(pending, Suspended("click", "", NoArg, Null, node.id, node, openTabs))
            /\ UNCHANGED <<openTabs, activeTabId>>
       ELSE /\ OpenTab(node, openTabs)
            /\ UNCHANGED pending
    /\ last' = NoStep
    /\ UNCHANGED <<projectState, fileSystem, termPath, created>>

\* FileClickResolved refusing a file of exactly the limit size
FileClickResolvedAtLimit(i, f) ==
    /\ i \in 1..Len(pending)
    /\ pending[i].op = "click"
    /\ LET p == pending[i]
           content == IF isMediaOrBinary(p.node.language) THEN ObjectUrl
                      ELSE IF f.size >= MaxTextSize THEN TooLarge
                      ELSE f.text
       IN  /\ fileSystem' = updateContent(fileSystem, p.node.id, content)
           /\ OpenTab(p.node, p.tabs)
    /\ pending' = RemoveAt(pending, i)
    /\ last' = NoStep
    /\ UNCHANGED <<projectState, termPath, created>>

\* handleFileClick: getFile (and text) resolved with host file f
FileClickResolved(i, f) ==
    /\ i \in 1..Len(pending)
    /\ pending[i].op = "click"
    /\ LET p == pending[i]
           content == IF isMediaOrBinary(p.node.language) THEN ObjectUrl
                      ELSE IF f.size > MaxTextSize THEN TooLarge
                      ELSE f.text
       IN  /\ fileSystem' = updateContent(fileSystem, p.node.id, content)
           /\ OpenTab(p.node, p.tabs)
    /\ pending' = RemoveAt(pending, i)
    /\ last' = NoStep
    /\ UNCHANGED <<projectState, termPath, created>>

\* handleFileClick: getFile or text threw
FileClickRejected(i) ==
    /\ i \in 1..Len(pending)
    /\ pending[i].op = "click"
    /\ OpenTab(pending[i].node, pending[i].tabs)
    /\ pending' = RemoveAt(pending, i)
    /\ last' = NoStep
    /\ UNCHANGED <<projectState, fileSystem, termPath, created>>

----------------------------------------------------------------------------
(* Inputs *)

NameA == <<"a">>
NameB == <<"b">>
NameAB == <<"a", "_", "b">>

\* the continuations of suspended terminal commands
ShellResume ==
    \/ \E i \in 1..Len(pending) : MkdirResolved(i)
    \/ \E i \in 1..Len(pending) : MkdirRejected(i)
    \/ \E i \in 1..Len(pending) : TouchResolved(i)
    \/ \E i \in 1..Len(pending) : TouchRejected(i)
    \/ \E i \in 1..Len(pending) : RmResolved(i)
    \/ \E i \in 1..Len(pending) : RmRejected(i)
    \/ \E i \in 1..Len(pending) : \E f \in HostFiles : CatResolved(i, f)
    \/ \E i \in 1..Len(pending) : CatRejected(i)

\* A project (seeded or a host directory) is opened from the welcome screen
\* and the terminal is used; commands may be typed while one is suspended.
Next ==
    \/ createVirtualProject
    \/ \E d \in HostDirs : projectState = "WELCOME" /\ openRealFolder(d)
    \/ TermLs
    \/ \E arg \in {NameA, NameB, DotDot, NoArg} : TermCd(arg)
    \/ \E arg \in {NameA, NoArg} : TermMkdir(arg)
    \/ TermTouch("touch", NameB)
    \/ \E arg \in {NameA, NameB} : TermRm(arg)
    \/ TermCat(NameB)
    \/ ShellResume

Spec == Init /\ [][Next]_vars


\* The seeded project with a wider choice of names, among them a name that
\* contains the id separator and the name of a seeded file.
NameIndex == <<"index", ".", "html">>

NextVirtual ==
    \/ createVirtualProject
    \/ TermLs
    \/ \E arg \in {NameA, NameB, NameAB, DotDot, NoArg} : TermCd(arg)
    \/ \E arg \in {NameA, NameB, NameAB, NoArg} : TermMkdir(arg)
    \/ \E arg \in {NameA, NameB, NameAB, NameIndex} : TermTouch("touch", arg)
    \/ TermTouch("code", NameA)
    \/ \E arg \in {NameA, NameB, NameAB} : TermRm(arg)
    \/ \E arg \in {NameA, NameB, NameIndex} : TermCat(arg)
    \/ TermPwd
    \/ TermClear
    \/ \E arg \in {<<"install">>, <<"run">>} : TermNpm(arg)
    \/ \E rest \in {<<>>, <<NameA, NameB>>} : TermEcho(rest)
    \/ TermUnknown("git")

SpecVirtual == Init /\ [][NextVirtual]_vars

\* A project is opened, files are opened in tabs and the terminal removes
\* nodes.
NextTabs ==
    \/ createVirtualProject
    \/ \E d \in HostDirs : projectState = "WELCOME" /\ openRealFolder(d)
    \/ \E node \in ClickableNodes : handleFileClick(node)
    \/ \E i \in 1..Len(pending) : \E f \in HostFiles : FileClickResolved(i, f)
    \/ \E i \in 1..Len(pending) : FileClickRejected(i)
    \/ \E arg \in {NameA, DotDot} : TermCd(arg)
    \/ \E arg \in {NameA, NameB, NameIndex} : TermRm(arg)
    \/ \E i \in 1..Len(pending) : RmResolved(i)
    \/ \E i \in 1..Len(pending) : RmRejected(i)

SpecTabs == Init /\ [][NextTabs]_vars

\* the id of the settings tab
SettingsId == <<"settings">>

\* openSettings
openSettings ==
    /\ projectState = "EDITING"
    /\ Len(openTabs) < MaxTabs
    /\ openTabs' = IF \E k \in 1..Len(openTabs) : openTabs[k].id = SettingsId
                   THEN openTabs
                   ELSE Append(openTabs, Tab(SettingsId, <<"Settings">>, FALSE))
    /\ activeTabId' = SettingsId
    /\ last' = NoStep
    /\ UNCHANGED <<projectState, fileSystem, termPath, pending, created>>

\* handleTabClose: the close button of the tab with this id
handleTabClose(id) ==
    /\ projectState = "EDITING"
    /\ \E k \in 1..Len(openTabs) : openTabs[k].id = id
    /\ LET keep(t) == t.id # id
           newTabs == SelectSeq(openTabs, keep)
       IN  /\ openTabs' = newTabs
           /\ activeTabId' = IF activeTabId = id
                             THEN IF Len(newTabs) > 0 THEN newTabs[Len(newTabs)].id ELSE Null
                             ELSE activeTabId
    /\ last' = NoStep
    /\ UNCHANGED <<projectState, fileSystem, termPath, pending, created>>

\* A host directory is opened; files are opened, tabs are closed, the
\* settings are opened and the terminal removes nodes.
NextTabBar ==
    \/ \E d \in HostDirs : projectState = "WELCOME" /\ openRealFolder(d)
    \/ \E node \in ClickableNodes : handleFileClick(node)
    \/ \E i \in 1..Len(pending) : \E f \in HostFiles : FileClickResolved(i, f)
    \/ \E i \in 1..Len(pending) : FileClickRejected(i)
    \/ openSettings
    \/ \E k \in 1..Len(openTabs) : handleTabClose(openTabs[k].id)
    \/ \E arg \in {NameA, DotDot} : TermCd(arg)
    \/ \E arg \in {NameA, NameB} : TermRm(arg)
    \/ \E i \in 1..Len(pending) : RmResolved(i)
    \/ \E i \in 1..Len(pending) : RmRejected(i)

SpecTabBar == Init /\ [][NextTabBar]_vars


\* A host directory is opened and every terminal command is typed, also
\* while an rm is suspended on the host, so that the directory the stack
\* ends in can be removed under the terminal.
NextLost ==
    \/ \E d \in HostDirs : projectState = "WELCOME" /\ openRealFolder(d)
    \/ TermLs
    \/ TermPwd
    \/ \E arg \in {NameA, DotDot} : TermCd(arg)
    \/ TermMkdir(NameA)
    \/ TermTouch("touch", NameB)
    \/ TermRm(NameA)
    \/ TermCat(NameB)
    \/ TermClear
    \/ TermNpm(<<"install">>)
    \/ TermEcho(<<NameA>>)
    \/ TermUnknown("git")
    \/ ShellResume

SpecLost == Init /\ [][NextLost]_vars

\* host files around the size limit of the editor (size in bytes, text as
\* decoded)
HostFilesSized ==
    { HostFile(0, Chars(0)),
      HostFile(MaxTextSize, Chars(2)),
      HostFile(MaxTextSize + 1, Chars(3)) }

\* A host directory is opened; files are opened from the explorer and shown
\* with cat.
NextOpen ==
    \/ \E d \in HostDirs : projectState = "WELCOME" /\ openRealFolder(d)
    \/ \E node \in ClickableNodes : handleFileClick(node)
    \/ \E i \in 1..Len(pending) : \E f \in HostFilesSized : FileClickResolved(i, f)
    \/ \E i \in 1..Len(pending) : FileClickRejected(i)
    \/ \E arg \in {NameA, DotDot} : TermCd(arg)
    \/ TermCat(NameB)
    \/ \E i \in 1..Len(pending) : \E f \in HostFiles \cup HostFilesSized : CatResolved(i, f)
    \/ \E i \in 1..Len(pending) : CatRejected(i)

SpecOpen == Init /\ [][NextOpen]_vars

\* The host refuses a part of the directory that is opened; what was
\* ingested is listed, walked and opened.
NextRestricted ==
    \/ \E d \in RestrictedDirs : projectState = "WELCOME" /\ openRealFolder(d)
    \/ \E node \in ClickableNodes : handleFileClick(node)
    \/ \E i \in 1..Len(pending) : \E f \in HostFiles : FileClickResolved(i, f)
    \/ \E i \in 1..Len(pending) : FileClickRejected(i)
    \/ \E arg \in {NameA, DotDot} : TermCd(arg)
    \/ TermLs

SpecRestricted == Init /\ [][NextRestricted]_vars

----------------------------------------------------------------------------
(* processInputFiles: a project rebuilt from a flat list of files *)

\* at most this many files in a list
MaxFiles == 3

\* String.prototype.split(sep) on a token sequence
RECURSIVE SplitOn(_, _)
SplitOn(s, sep) ==
    LET hits == {i \in 1..Len(s) : s[i] = sep}
    IN  IF hits = {} THEN <<s>>
        ELSE LET k == CHOOSE i \in hits : \A j \in hits : i <= j
             IN  <<SubSeq(s, 1, k - 1)>> \o SplitOn(SubSeq(s, k + 1, Len(s)), sep)

\* a File of the list: name, webkitRelativePath ("" when the file was picked
\* on its own), the decoded text and whether text() answers
InputFile(name, path, text, decodes) ==
    [name |-> name, webkitRelativePath |-> path, text |-> text, decodes |-> decodes]

NameATxt == <<"a", ".", "txt">>
NameBTxt == <<"b", ".", "txt">>
NameCTxt == <<"c", ".", "txt">>
NameSrc == <<"src">>
NameSub == <<"sub">>
NameReadme == <<"README", ".", "md">>

InputFiles ==
    { InputFile(NameATxt, NameSrc \o <<"/">> \o NameATxt, Chars(1), TRUE),
      InputFile(NameBTxt, NameSrc \o <<"/">> \o NameSub \o <<"/">> \o NameBTxt, Chars(2), TRUE),
      InputFile(NameCTxt, NameCTxt, Chars(3), FALSE),
      InputFile(NameReadme, <<>>, Chars(4), TRUE) }

FileLists == UNION {[1..n -> InputFiles] : n \in 1..MaxFiles}

BinaryNotice == <<"Binary file cannot be displayed.">>

\* PlaceUnder creating a folder at every step, never reusing one
RECURSIVE PlaceUnderAlwaysNew(_, _, _, _, _)
PlaceUnderAlwaysNew(childNodes, folders, parentId, file, content) ==
    IF folders = <<>>
    THEN Append(childNodes,
                FileNode(parentId \o US \o file.name, file.name, parentId, TRUE, content,
                         NoHandle, getLanguageFromExtension(file.name)))
    ELSE LET name == Head(folders)
             id == IF parentId = ROOT THEN name ELSE parentId \o US \o name
             level == Append(childNodes, FolderNode(id, name, parentId, <<>>, NoHandle, FALSE))
             k == Len(level)
         IN  [level EXCEPT ![k].children =
                 PlaceUnderAlwaysNew(level[k].children, Tail(folders), level[k].id, file,
                                     content)]

\* one turn of the loop over the list: the folders of the path are found or
\* created from childNodes down, and the file is pushed under the deepest
RECURSIVE PlaceUnder(_, _, _, _, _)
PlaceUnder(childNodes, folders, parentId, file, content) ==
    IF folders = <<>>
    THEN Append(childNodes,
                FileNode(parentId \o US \o file.name, file.name, parentId, TRUE, content,
                         NoHandle, getLanguageFromExtension(file.name)))
    ELSE LET name == Head(folders)
             found == {i \in 1..Len(childNodes) :
                          childNodes[i].name = name /\ childNodes[i].type = "FOLDER"}
             id == IF parentId = ROOT THEN name ELSE parentId \o US \o name
             level == IF found = {}
                      THEN Append(childNodes, FolderNode(id, name, parentId, <<>>, NoHandle, FALSE))
                      ELSE childNodes
             k == IF found = {} THEN Len(level)
                  ELSE CHOOSE i \in found : \A j \in found : i <= j
         IN  [level EXCEPT ![k].children =
                 PlaceUnder(level[k].children, Tail(folders), level[k].id, file, content)]

\* rootChildren after the first n files of the list
RECURSIVE RootChildren(_, _)
RootChildren(fileList, n) ==
    IF n = 0 THEN <<>>
    ELSE LET before == RootChildren(fileList, n - 1)
             file == fileList[n]
             lang == getLanguageFromExtension(file.name)
             content == IF isMediaOrBinary(lang) THEN ObjectUrl
                        ELSE IF file.decodes THEN file.text
                        ELSE BinaryNotice
             path == file.webkitRelativePath
             parts == SplitOn(path, "/")
         IN  IF path = <<>>
             THEN Append(before, FileNode(file.name, file.name, ROOT, TRUE, content,
                                          NoHandle, lang))
             ELSE PlaceUnder(before, SubSeq(parts, 1, Len(parts) - 1), ROOT,
                             [file EXCEPT !.name = parts[Len(parts)]], content)

\* findReadme: the first node, parents before children, whose name starts
\* with "readme" in any case or is index.html
RECURSIVE findReadme(_)
findReadme(nodes) ==
    IF nodes = <<>> THEN Nil
    ELSE LET n == Head(nodes)
             below == IF n.hasChildren THEN findReadme(n.children) ELSE Nil
         IN  IF (n.name # <<>> /\ ToLowerTok(n.name[1]) = "readme") \/ n.name = NameIndex
             THEN n
             ELSE IF below # Nil THEN below
             ELSE findReadme(Tail(nodes))

\* handleInputFileChange -> processInputFiles
processInputFiles(fileList) ==
    /\ Len(fileList) > 0
    /\ projectState' = "EDITING"
    /\ termPath' = <<ROOT>>
    /\ last' = NoStep
    /\ UNCHANGED <<pending, created>>
    /\ LET rootChildren == RootChildren(fileList, Len(fileList))
           readme == findReadme(rootChildren)
           startFile == IF readme # Nil THEN readme ELSE rootChildren[1]
       IN  /\ fileSystem' = <<FolderNode(ROOT, <<"Opened Project">>, Null, rootChildren,
                                         NoHandle, TRUE)>>
           /\ IF startFile.type = "FILE"
              THEN OpenTab(startFile, openTabs)
              ELSE UNCHANGED <<openTabs, activeTabId>>

\* MenuBar onNewFile; now is what Date.now() answers
onNewFile(now) ==
    /\ projectState = "EDITING"
    /\ created < MaxCreate
    /\ created' = created + 1
    /\ LET newId == <<"root", "_", "new", "_", ToString(now), ".", "txt">>
           newNode == FileNode(newId, <<"untitled", ".", "txt">>, ROOT, TRUE, <<>>,
                               NoHandle, "text")
       IN  /\ fileSystem' = addNodeToTree(fileSystem, ROOT, newNode)
           /\ OpenTab(newNode, openTabs)
    /\ last' = NoStep
    /\ UNCHANGED <<projectState, termPath, pending>>

\* A list of files is handed over from the welcome screen, the terminal
\* walks the project built from it and new files are added from the menu.
NextIngest ==
    \/ \E fileList \in FileLists : projectState = "WELCOME" /\ processInputFiles(fileList)
    \/ \E now \in {1, 2} : onNewFile(now)
    \/ TermLs
    \/ \E arg \in {NameSrc, NameSub, DotDot} : TermCd(arg)

SpecIngest == Init /\ [][NextIngest]_vars

\* A project is opened and files are opened in tabs; then another project
\* is opened from the menu bar, a host directory or a list of files.
NextReopen ==
    \/ createVirtualProject
    \/ \E d \in HostDirs : openRealFolder(d)
    \/ \E fileList \in FileLists : Len(openTabs) < MaxTabs /\ processInputFiles(fileList)
    \/ \E node \in ClickableNodes : handleFileClick(node)
    \/ \E i \in 1..Len(pending) : \E f \in HostFiles : FileClickResolved(i, f)
    \/ \E i \in 1..Len(pending) : FileClickRejected(i)

SpecReopen == Init /\ [][NextReopen]_vars

NameSrcSub == <<"src", "_", "sub">>
NameSubATxt == <<"sub", "_", "a", ".", "txt">>

\* files whose folder or file names hold a '_'
InputFilesUnderscore ==
    { InputFile(NameATxt, NameSrcSub \o <<"/">> \o NameATxt, Chars(5), TRUE),
      InputFile(NameSubATxt, NameSrc \o <<"/">> \o NameSubATxt, Chars(6), TRUE) }

\* the relative path of a file of the list, its name when it was picked
\* alone
PathOf(file) ==
    IF file.webkitRelativePath = <<>> THEN file.name ELSE file.webkitRelativePath

\* the lists of files with pairwise distinct relative paths
DistinctPathLists ==
    { fileList \in UNION {[1..n -> InputFiles \cup InputFilesUnderscore] : n \in 1..MaxFiles} :
        \A i, j \in 1..Len(fileList) :
            i # j => PathOf(fileList[i]) # PathOf(fileList[j]) }

\* A list of files with distinct paths is handed over from the welcome
\* screen and the terminal walks the project built from it.
NextIngestNames ==
    \/ \E fileList \in DistinctPathLists :
          projectState = "WELCOME" /\ processInputFiles(fileList)
    \/ TermLs
    \/ \E arg \in {NameSrc, NameSub, NameSrcSub, DotDot} : TermCd(arg)

SpecIngestNames == Init /\ [][NextIngestNames]_vars

----------------------------------------------------------------------------
(* Editing and saving the active file *)

\* CodeEditor onChange -> updateFileContent(activeFileNode.id, val)
updateFileContent(id, newContent) ==
    /\ projectState = "EDITING"
    /\ id = activeTabId
    /\ findNode(fileSystem, id) # Nil
    /\ fileSystem' = updateContent(fileSystem, id, newContent)
    /\ openTabs' = [t \in 1..Len(openTabs) |->
                       IF openTabs[t].id = id THEN [openTabs[t] EXCEPT !.isDirty = TRUE]
                       ELSE openTabs[t]]
    /\ last' = NoStep
    /\ UNCHANGED <<projectState, termPath, activeTabId, pending, created>>

\* what a save did: the host outcome and whether the content was handed to
\* the browser as a download
Saved(host, downloaded) ==
    last' = Step("save", NoArg, "done", host,
                 IF downloaded THEN <<"download">> ELSE <<>>)

\* the tabs after setOpenTabs(prev => prev.map(... isDirty: false ...))
MarkClean(tabs, id) ==
    [t \in 1..Len(tabs) |->
        IF tabs[t].id = id THEN [tabs[t] EXCEPT !.isDirty = FALSE] ELSE tabs[t]]

\* saveActiveFile up to the await or the end
saveActiveFile ==
    /\ projectState = "EDITING"
    /\ activeTabId # Null
    /\ activeTabId # <<"settings">>
    /\ LET fileNode == findNode(fileSystem, activeTabId)
       IN  /\ fileNode # Nil
           /\ fileNode.hasContent
           /\ ~isMediaOrBinary(fileNode.language)
           /\ IF fileNode.handle # NoHandle
              THEN /\ Len(pending) < MaxPending
                   /\ pending' = Append(pending, Suspended("save", "save", NoArg, Null,
                                                           activeTabId, fileNode, <<>>))
                   /\ last' = Step("save", NoArg, "pending", "none", <<>>)
                   /\ UNCHANGED openTabs
              ELSE /\ openTabs' = MarkClean(openTabs, activeTabId)
                   /\ Saved("none", TRUE)
                   /\ UNCHANGED pending
    /\ UNCHANGED <<projectState, fileSystem, termPath, activeTabId, created>>

\* saveActiveFile: createWritable, write and close resolved
SaveResolved(i) ==
    /\ i \in 1..Len(pending)
    /\ pending[i].op = "save"
    /\ openTabs' = MarkClean(openTabs, pending[i].targetId)
    /\ Saved("ok", FALSE)
    /\ pending' = RemoveAt(pending, i)
    /\ UNCHANGED <<projectState, fileSystem, termPath, activeTabId, created>>

\* saveActiveFile: createWritable, write or close threw
SaveRejected(i) ==
    /\ i \in 1..Len(pending)
    /\ pending[i].op = "save"
    /\ openTabs' = MarkClean(openTabs, pending[i].targetId)
    /\ Saved("fail", TRUE)
    /\ pending' = RemoveAt(pending, i)
    /\ UNCHANGED <<projectState, fileSystem, termPath, activeTabId, created>>

\* A project is opened, files are opened, edited and saved.
NextSave ==
    \/ createVirtualProject
    \/ \E d \in HostDirs : projectState = "WELCOME" /\ openRealFolder(d)
    \/ \E node \in ClickableNodes : handleFileClick(node)
    \/ \E i \in 1..Len(pending) : \E f \in HostFiles : FileClickResolved(i, f)
    \/ \E i \in 1..Len(pending) : FileClickRejected(i)
    \/ \E newContent \in {Chars(1)} : updateFileContent(activeTabId, newContent)
    \/ saveActiveFile
    \/ \E i \in 1..Len(pending) : SaveResolved(i)
    \/ \E i \in 1..Len(pending) : SaveRejected(i)

SpecSave == Init /\ [][NextSave]_vars

\* Folders and files are made in the terminal of the virtual project, files
\* are opened from the explorer and edited.
NextEdit ==
    \/ createVirtualProject
    \/ TermMkdir(NameA)
    \/ TermTouch("touch", NameA)
    \/ \E arg \in {NameA, DotDot} : TermCd(arg)
    \/ \E node \in ClickableNodes : handleFileClick(node)
    \/ \E newContent \in {Chars(1), Chars(2)} : updateFileContent(activeTabId, newContent)

SpecEdit == Init /\ [][NextEdit]_vars

----------------------------------------------------------------------------
(* handleTerminalCommand from the typed line on *)

\* at most this many words on a line, at most this many spaces in a row
MaxWords == 3
MaxGap == 2

SP == " "

\* String.prototype.trim for lines of words and spaces
RECURSIVE Trim(_)
Trim(s) ==
    IF s = <<>> THEN s
    ELSE IF Head(s) = SP THEN Trim(Tail(s))
    ELSE IF s[Len(s)] = SP THEN Trim(SubSeq(s, 1, Len(s) - 1))
    ELSE s

\* the words typed; each is one token of the line
Words == {"echo", "cd", "pwd", "a", "b"}

Gap(n) == [i \in 1..n |-> SP]

\* the first n words of ws, gs[i] spaces after the i-th
RECURSIVE Spaced(_, _, _)
Spaced(ws, gs, n) ==
    IF n = 1 THEN <<ws[1]>>
    ELSE Spaced(ws, gs, n - 1) \o Gap(gs[n - 1]) \o <<ws[n]>>

\* the lines typed: words with one or more spaces between them, with or
\* without a space around
CommandLines ==
    UNION { { Gap(pad) \o Spaced(ws, gs, k) \o Gap(pad) :
                <<ws, gs, pad>> \in [1..k -> Words] \X [1..(k - 1) -> 1..MaxGap] \X {0, 1} }
            : k \in 1..MaxWords }

\* TerminalPanel: a line is entered
TypeLine(cmd) ==
    /\ projectState = "EDITING"
    /\ last.phase # "typed"
    /\ last' = Step("", cmd, "typed", "none", <<>>)
    /\ UNCHANGED <<projectState, fileSystem, termPath, openTabs, activeTabId, pending, created>>

\* handleTerminalCommand(cmd) for the line entered: the parts, the command
\* and the argument, then the switch
handleTerminalCommand ==
    /\ last.phase = "typed"
    /\ LET cmd == last.arg
           parts == SplitOn(Trim(cmd), SP)
           command == IF parts[1] = <<>> THEN "" ELSE parts[1][1]
           arg == IF Len(parts) > 1 THEN parts[2] ELSE NoArg
       IN  \/ command = "ls" /\ TermLs
           \/ command = "pwd" /\ TermPwd
           \/ command = "cd" /\ TermCd(arg)
           \/ command = "mkdir" /\ TermMkdir(arg)
           \/ command \in {"touch", "code"} /\ TermTouch(command, arg)
           \/ command = "rm" /\ TermRm(arg)
           \/ command = "cat" /\ TermCat(arg)
           \/ command = "clear" /\ TermClear
           \/ command = "npm" /\ TermNpm(arg)
           \/ command = "echo" /\ TermEcho(Tail(parts))
           \/ /\ command \notin {"ls", "pwd", "cd", "mkdir", "touch", "code", "rm", "cat",
                                 "clear", "npm", "echo"}
              /\ TermUnknown(command)

\* Lines are typed into the terminal of the virtual project and run.
NextShell ==
    \/ createVirtualProject
    \/ \E cmd \in CommandLines : TypeLine(cmd)
    \/ handleTerminalCommand

SpecShell == Init /\ [][NextShell]_vars

----------------------------------------------------------------------------
(* Properties *)

\* every node occurrence of the current tree
Tree == AllNodes(fileSystem)

\* C1: after any sequence of mkdir, touch, rm and cd commands no two nodes
\* of the tree have the same id.
C1_UniqueIds ==
    \A i, j \in 1..Len(Tree) : i # j => Tree[i].id # Tree[j].id

\* C2: every non-root node's parentId is the id of an existing FOLDER node,
\* and that folder's children list holds the node (by id) exactly once.
C2_ParentLinks ==
    \A i \in 1..Len(Tree) :
        Tree[i].id # ROOT =>
            LET parent == findNode(fileSystem, Tree[i].parentId)
            IN  /\ parent # Nil
                /\ parent.type = "FOLDER"
                /\ Cardinality({k \in 1..Len(parent.children) :
                                    parent.children[k].id = Tree[i].id}) = 1


\* the ids of a node and of all its descendants
SubtreeIds(node) ==
    {AllNodes(<<node>>)[k].id : k \in 1..Len(AllNodes(<<node>>))}

\* the step taken is an rm that went through (returned '' after removing);
\* target is the child the name resolved to when the command was typed
RmSucceeds(target) ==
    /\ last'.cmd = "rm"
    /\ last'.phase = "done"
    /\ last'.host \in {"none", "ok"}
    /\ last'.arg # NoArg
    /\ last'.result = <<>>
    /\ target # Nil
    /\ IF last'.host = "none"
       THEN LET isTarget(c) == c.name = last'.arg
            IN  target = FindChild(currentDirNode, isTarget)
       ELSE \E i \in 1..Len(pending) :
               /\ pending[i].op = "rm"
               /\ pending' = RemoveAt(pending, i)
               /\ target = findNode(fileSystem, pending[i].targetId)

\* C3: after a successful rm of a FOLDER child of the current directory,
\* find returns no node for the folder and for each of its descendants, and
\* no open tab has the id of the folder or of a descendant.
C3_RmFolderEvicts ==
    [][\A target \in {Tree[k] : k \in 1..Len(Tree)} :
          (RmSucceeds(target) /\ target.type = "FOLDER") =>
              \A id \in SubtreeIds(target) :
                  /\ findNode(fileSystem', id) = Nil
                  /\ \A t \in 1..Len(openTabs') : openTabs'[t].id # id]_vars

\* an rm step that does not go through: the command suspends on the host
\* delete, or the host delete failed
RmNotDone ==
    /\ last'.cmd = "rm"
    /\ last'.phase = "pending" \/ last'.host = "fail"

\* C4: when rm targets a child of a Native current directory and the host
\* delete fails, the command returns an error string and neither of its
\* steps changes the node tree or the open-tab list.
C4_RmFailureKeepsTree ==
    [][RmNotDone =>
          /\ fileSystem' = fileSystem
          /\ openTabs' = openTabs
          /\ last'.host = "fail" =>
                last'.result = <<"Error deleting from disk: ">> \o ErrText]_vars

\* C4 witness: a host delete failed on a child of a Native directory while
\* a tab was open on a node of the tree
C4_Witness ==
    /\ last.cmd = "rm"
    /\ last.host = "fail"
    /\ currentDirNode # Nil
    /\ currentDirNode.handle # NoHandle
    /\ LET isTarget(c) == c.name = last.arg
       IN  FindChild(currentDirNode, isTarget) # Nil
    /\ \E t \in 1..Len(openTabs) : findNode(fileSystem, openTabs[t].id) # Nil


\* C5: when mkdir or touch runs in a Native current directory and the host
\* create fails, a Virtual node (no host capability) with the requested name
\* and kind is still added as a child of the directory.
C5_CreateFallsBackToVirtual ==
    [][\A i \in 1..Len(pending) :
          (/\ pending[i].op \in {"mkdir", "touch"}
           /\ pending' = RemoveAt(pending, i)
           /\ last'.cmd \in {"mkdir", "touch", "code"}
           /\ last'.host = "fail") =>
              LET dir == findNode(fileSystem', pending[i].dirId)
                  kind == IF pending[i].op = "mkdir" THEN "FOLDER" ELSE "FILE"
                  isNew(c) == /\ c.name = pending[i].arg
                              /\ c.type = kind
                              /\ c.handle = NoHandle
              IN  FindChild(dir, isNew) # Nil]_vars

\* C6: while a terminal command is suspended on a host operation, no other
\* command reads or changes the working-directory stack or the tree: the
\* stack stays as it is, no further command is accepted, and the tree changes
\* only when a suspended command resumes.
C6_SingleFlight ==
    [][(\E i \in 1..Len(pending) : pending[i].op \in {"mkdir", "touch", "rm", "cat"}) =>
          /\ termPath' = termPath
          /\ Len(pending') <= Len(pending)
          /\ ~(last'.phase = "done" /\ last'.host = "none")
          /\ fileSystem' # fileSystem => Len(pending') < Len(pending)]_vars


\* the string mkdir / touch return after adding a Virtual node
VirtualDirCreated(arg) == <<"Virtual directory '">> \o arg \o <<"' created.">>
VirtualFileCreated(arg) == <<"Virtual file '">> \o arg \o <<"' created.">>

\* the last child of the node that find returns for id in the next state
LastChildNext(id) ==
    LET dir == findNode(fileSystem', id)
    IN  IF dir = Nil THEN Nil
        ELSE IF dir.children = <<>> THEN Nil
        ELSE dir.children[Len(dir.children)]

\* C7: in a Virtual current directory mkdir <name> adds a FOLDER child named
\* <name> with an empty children list and touch / code <name> adds a FILE
\* child named <name> with content ""; a cd <name> typed next succeeds for
\* the folder and a cat <name> typed next returns "" for the file.
C7_VirtualCreateThenUse ==
    [][/\ (last'.cmd = "mkdir" /\ last'.result = VirtualDirCreated(last'.arg)) =>
            LET new == LastChildNext(currentDirId)
            IN  /\ new # Nil
                /\ new.type = "FOLDER" /\ new.name = last'.arg
                /\ new.hasChildren /\ new.children = <<>>
       /\ (last'.cmd \in {"touch", "code"} /\ last'.result = VirtualFileCreated(last'.arg)) =>
            LET new == LastChildNext(currentDirId)
            IN  /\ new # Nil
                /\ new.type = "FILE" /\ new.name = last'.arg
                /\ new.hasContent /\ new.content = <<>>
       /\ (/\ last.cmd = "mkdir" /\ last.result = VirtualDirCreated(last.arg)
           /\ last'.cmd = "cd" /\ last'.arg = last.arg) =>
            /\ last'.result = <<>>
            /\ Len(termPath') = Len(termPath) + 1
       /\ (/\ last.cmd \in {"touch", "code"} /\ last.result = VirtualFileCreated(last.arg)
           /\ last'.cmd = "cat" /\ last'.arg = last.arg) =>
            last'.result = <<>>]_vars

\* what ls prints for a list of children
LsRender(kids) ==
    LET render(c) == IF c.type = "FOLDER" THEN <<"[">> \o c.name \o <<"]">> ELSE c.name
    IN  Join([i \in 1..Len(kids) |-> render(kids[i])], <<"  ">>)

\* C8: ls lists all FOLDER children before all FILE children and, within a
\* kind, in ascending name order, whatever the order of insertion; a
\* directory holding FOLDER "b" and FILE "a" yields exactly "[b]  a".
C8_LsSorted ==
    (last.cmd = "ls" /\ currentDirNode # Nil) =>
        LET kids == currentDirNode.children
        IN  /\ last.result = LsRender(kids)
            /\ \A i, j \in 1..Len(kids) :
                  i < j => /\ ~(kids[i].type = "FILE" /\ kids[j].type = "FOLDER")
                           /\ kids[i].type = kids[j].type =>
                                 ~LocaleLess(kids[j].name, kids[i].name)
            /\ ({[type |-> kids[i].type, name |-> kids[i].name] : i \in 1..Len(kids)}
                   = {[type |-> "FOLDER", name |-> NameB], [type |-> "FILE", name |-> NameA]}
                /\ Len(kids) = 2)
               => last.result = <<"[", "b", "]", "  ", "a">>

\* cd <name> with a name that is no FOLDER child of the resolved current
\* directory
CdMisses ==
    /\ last'.cmd = "cd"
    /\ last'.arg \notin {NoArg, DotDot}
    /\ currentDirNode # Nil
    /\ \A k \in 1..Len(currentDirNode.children) :
          ~(currentDirNode.children[k].name = last'.arg
            /\ currentDirNode.children[k].type = "FOLDER")

\* C9: cd <name> where <name> is not the exact name of a FOLDER child of the
\* current directory (also when it names a FILE child) leaves the
\* working-directory stack unchanged and returns
\* "cd: no such file or directory: <name>".
C9_CdMissKeepsStack ==
    [][CdMisses =>
          /\ termPath' = termPath
          /\ last'.result = <<"cd: no such file or directory: ">> \o last'.arg]_vars

\* C9 witness: cd was refused for a name that a FILE child of the current
\* directory bears
C9_Witness ==
    /\ last.cmd = "cd"
    /\ last.result = <<"cd: no such file or directory: ">> \o last.arg
    /\ currentDirNode # Nil
    /\ \E k \in 1..Len(currentDirNode.children) :
          /\ currentDirNode.children[k].name = last.arg
          /\ currentDirNode.children[k].type = "FILE"

\* C10: cd .. with the stack at [root] returns "Already at root" and leaves
\* the stack at length 1; the stack is never empty and its first entry is
\* always the root id.
C10_StackRooted ==
    /\ [](Len(termPath) >= 1 /\ termPath[1] = ROOT)
    /\ [][(last'.cmd = "cd" /\ last'.arg = DotDot /\ termPath = <<ROOT>>) =>
             /\ last'.result = <<"Already at root">>
             /\ termPath' = <<ROOT>>]_vars

\* C10 witness: cd .. was answered "Already at root" with the stack at [root]
C10_Witness ==
    /\ last.cmd = "cd"
    /\ last.arg = DotDot
    /\ last.result = <<"Already at root">>
    /\ termPath = <<ROOT>>


\* the step is a terminal command being typed (not the continuation of a
\* suspended one)
CommandTyped ==
    /\ last' # last
    /\ \/ last'.phase = "pending"
       \/ last'.phase = "done" /\ last'.host = "none"

\* C11: when the last id of the working-directory stack resolves to no node,
\* every command other than ls returns the directory-lost error and changes
\* no state, and ls returns "".
C11_DirectoryLost ==
    [][(currentDirNode = Nil /\ CommandTyped) =>
          /\ last'.phase = "done"
          /\ last'.result = IF last'.cmd = "ls" THEN <<>> ELSE DirectoryLost
          /\ UNCHANGED <<projectState, fileSystem, termPath, openTabs, activeTabId,
                         pending>>]_vars

\* C11 witness: mkdir was answered with the directory-lost error while the
\* stack ends in an id that resolves to no node
C11_Witness ==
    /\ projectState = "EDITING"
    /\ currentDirNode = Nil
    /\ last.cmd = "mkdir"
    /\ last.result = DirectoryLost


\* the local name of the directory a stack entry stands for (the root entry
\* stands for itself)
StackName(id) == IF id = ROOT THEN ROOT ELSE findNode(fileSystem, id).name

\* C12: pwd returns "/" followed by the local names of the directories on
\* the working-directory stack joined by "/", also for names that contain
\* '_', and the prompt's current-directory string is the local name of the
\* current directory.
C12_PwdLocalNames ==
    (\A i \in 1..Len(termPath) : findNode(fileSystem, termPath[i]) # Nil) =>
        /\ currentTermDirName = StackName(currentDirId)
        /\ last.cmd = "pwd" =>
              last.result = <<"/">> \o Join([i \in 1..Len(termPath) |->
                                                StackName(termPath[i])], <<"/">>)


\* what cat is to show of a content
CatShown(content) ==
    Substring0(content, CatLimit) \o (IF Len(content) > CatLimit THEN <<"...">> ELSE <<>>)

\* C13: for a text-like FILE child, whether its content is resident or read
\* from the host during the command, cat returns the first 500 characters
\* of the content, followed by "..." exactly when the content is longer than
\* 500 characters.
C13_CatTruncates ==
    [][/\ (last'.cmd = "cat" /\ last'.phase = "done" /\ last'.host = "none"
           /\ last' # last /\ currentDirNode # Nil /\ last'.arg # NoArg) =>
             LET isTarget(c) == c.name = last'.arg /\ c.type = "FILE"
                 fileToRead == FindChild(currentDirNode, isTarget)
             IN  (fileToRead # Nil /\ ~isMediaOrBinary(fileToRead.language)) =>
                     last'.result = CatShown(IF fileToRead.hasContent
                                             THEN fileToRead.content ELSE <<>>)
       /\ (last'.cmd = "cat" /\ last'.phase = "done" /\ last'.host = "ok"
           /\ Len(pending') < Len(pending)) =>
             \E f \in HostFiles : last'.result = CatShown(f.text)]_vars


ReadAnswered(i) ==
    /\ i \in 1..Len(pending)
    /\ pending[i].op \in {"click", "cat"}
    /\ pending' = RemoveAt(pending, i)
    /\ \/ pending[i].op = "cat" /\ last'.cmd = "cat" /\ last'.host = "ok"
       \/ pending[i].op = "click" /\ fileSystem' # fileSystem

\* C15: once the content of a Native FILE node has been loaded by an access
\* (an explorer open or a cat), the content is resident on the node, and an
\* access to a node with resident content starts no host read.
C15_LoadedOnce ==
    [][/\ \A i \in 1..Len(pending) :
             ReadAnswered(i) =>
                 LET node == findNode(fileSystem', pending[i].targetId)
                 IN  node # Nil => node.hasContent
       /\ \A k \in 1..Len(Tree) :
             (Tree[k].type = "FILE" /\ Tree[k].hasContent) =>
                 ~(Len(pending') > Len(pending)
                   /\ pending'[Len(pending')].op \in {"click", "cat"}
                   /\ pending'[Len(pending')].targetId = Tree[k].id)]_vars


\* every node occurrence below nodes with the names from the top down to it
RECURSIVE PathsOf(_, _)
PathsOf(nodes, prefix) ==
    IF nodes = <<>> THEN <<>>
    ELSE LET n == Head(nodes)
             here == Append(prefix, n.name)
         IN  <<[path |-> here, type |-> n.type]>>
             \o (IF n.hasChildren THEN PathsOf(n.children, here) ELSE <<>>)
             \o PathsOf(Tail(nodes), prefix)

\* the relative path of a file of the list, as its sequence of names
RelPath(file) ==
    IF file.webkitRelativePath = <<>> THEN <<file.name>>
    ELSE SplitOn(file.webkitRelativePath, "/")

\* the tree holds one FOLDER per distinct directory prefix of the list and
\* nothing else but the files, each at its own path
Rebuilt(fileList, tree) ==
    LET built == PathsOf(tree[1].children, <<>>)
        count(p, type) == Cardinality({k \in 1..Len(built) :
                                          built[k].path = p /\ built[k].type = type})
        dirs == UNION {{SubSeq(RelPath(fileList[i]), 1, d) :
                           d \in 1..(Len(RelPath(fileList[i])) - 1)} :
                       i \in 1..Len(fileList)}
        paths == {RelPath(fileList[i]) : i \in 1..Len(fileList)}
    IN  /\ Len(tree) = 1 /\ tree[1].id = ROOT
        /\ \A p \in dirs : count(p, "FOLDER") = 1
        /\ \A k \in 1..Len(built) :
              built[k].type = "FOLDER" => built[k].path \in dirs
        /\ \A p \in paths :
              count(p, "FILE") = Cardinality({i \in 1..Len(fileList) :
                                                 RelPath(fileList[i]) = p})
        /\ \A k \in 1..Len(built) :
              built[k].type = "FILE" => built[k].path \in paths

\* the names of a list of nodes
NamesOf(nodes) == [k \in 1..Len(nodes) |-> nodes[k].name]

\* C16: flat-list ingestion creates exactly one FOLDER node for each distinct
\* directory prefix of the list, whatever the order of the entries, and puts
\* each file under the folder of its prefix; src/a.txt, src/sub/b.txt, c.txt
\* give src holding a.txt and sub, sub holding b.txt, and c.txt at the top.
C16_FlatListFolders ==
    [][\A fileList \in FileLists :
          (fileSystem' # fileSystem /\ processInputFiles(fileList)) =>
              /\ Rebuilt(fileList, fileSystem')
              /\ [i \in 1..Len(fileList) |-> fileList[i].name] = <<NameATxt, NameBTxt, NameCTxt>>
                    => LET top == fileSystem'[1].children
                       IN  /\ NamesOf(top) = <<NameSrc, NameCTxt>>
                           /\ NamesOf(top[1].children) = <<NameATxt, NameSub>>
                           /\ NamesOf(top[1].children[2].children) = <<NameBTxt>>]_vars

\* C16 witness: a list naming src twice after a top-level file was ingested:
\* the tree holds c.txt, then src with sub and a.txt
C16_Witness ==
    /\ projectState = "EDITING"
    /\ Len(fileSystem) = 1
    /\ NamesOf(fileSystem[1].children) = <<NameCTxt, NameSrc>>
    /\ NamesOf(fileSystem[1].children[2].children) = <<NameSub, NameATxt>>
    /\ NamesOf(fileSystem[1].children[2].children[1].children) = <<NameBTxt>>


\* every child below nodes has the id of the node that holds it, then "_",
\* then its own name
RECURSIVE IdsDerived(_)
IdsDerived(nodes) ==
    \A k \in 1..Len(nodes) :
        nodes[k].hasChildren =>
            /\ \A c \in 1..Len(nodes[k].children) :
                  nodes[k].children[c].id
                      = nodes[k].id \o <<"_">> \o nodes[k].children[c].name
            /\ IdsDerived(nodes[k].children)

\* C17: every non-root node, however it was created (seeding, native or
\* flat-list ingestion, mkdir, touch, the single-file open, the new-file
\* action), has the id of its parent followed by "_" and its local name.
C17_IdsDerived == IdsDerived(fileSystem)


\* C18: in every state reached by mkdir, touch, cd and rm commands, with any
\* names (names containing '_' included), no FILE node has a children list
\* and every FOLDER node has one.
C18_ChildrenByKind ==
    \A k \in 1..Len(Tree) :
        /\ Tree[k].type = "FILE" => ~Tree[k].hasChildren
        /\ Tree[k].type = "FOLDER" => Tree[k].hasChildren


\* C19: when the active file is saved and the native write fails, or the
\* file has no native capability, the content is offered as a download and
\* the tab's dirty indicator stays set; the indicator of a tab is cleared
\* only by a successful native write.
C19_SaveKeepsDirty ==
    [][/\ (last'.cmd = "save" /\ last'.phase = "done" /\ last'.host \in {"none", "fail"}
           /\ (last' # last \/ openTabs' # openTabs)) =>
             /\ last'.result = <<"download">>
             /\ openTabs' = openTabs
       /\ (\E t \in 1..Len(openTabs) : \E u \in 1..Len(openTabs') :
               /\ openTabs[t].id = openTabs'[u].id
               /\ openTabs[t].isDirty /\ ~openTabs'[u].isDirty) =>
             (last'.cmd = "save" /\ last'.host = "ok")]_vars


\* the commands that call the host
HostCommands == {"mkdir", "touch", "rm", "cat"}

\* C20: whichever host call of a command fails (or succeeds), the command
\* completes with exactly one string: a typed command either returns a
\* string at once or suspends on the host, and a suspended command leaves
\* the calls in flight only by returning its string.
C20_OneStringResult ==
    [][/\ CommandTyped =>
             \/ last'.phase = "done" /\ last'.result \in Seq(STRING)
                  /\ pending' = pending
             \/ last'.phase = "pending" /\ last'.cmd \in HostCommands \cup {"code"}
                  /\ Len(pending') = Len(pending) + 1
                  /\ pending'[Len(pending')].cmd = last'.cmd
                  /\ pending'[Len(pending')].arg = last'.arg
       /\ \A i \in 1..Len(pending) :
             (pending[i].op \in HostCommands /\ Len(pending') < Len(pending)
              /\ pending' = RemoveAt(pending, i)) =>
                 /\ last'.phase = "done"
                 /\ last'.host \in {"ok", "fail"}
                 /\ last'.cmd = pending[i].cmd
                 /\ last'.arg = pending[i].arg
                 /\ last'.result \in Seq(STRING)]_vars

\* C20 witness: a mkdir whose host call threw has returned its string
C20_Witness ==
    /\ last.cmd = "mkdir"
    /\ last.phase = "done"
    /\ last.host = "fail"
    /\ last.result = <<"Error creating directory on disk: ">> \o ErrText


\* the content of the first node, parents before children, that bears the
\* name and has resident content; "" when there is none
FirstContentByName(fileName) ==
    LET hits == {k \in 1..Len(Tree) : Tree[k].name = fileName /\ Tree[k].hasContent}
    IN  IF hits = {} THEN <<>>
        ELSE Tree[CHOOSE k \in hits : \A j \in hits : k <= j].content

\* C21: contentByExactName(name) returns the content of the first node, in
\* depth-first pre-order, whose name is exactly name and whose content is
\* resident, also when that content is the empty string, and "" when there
\* is no such node.
C21_ContentByExactName ==
    \A fileName \in {NameA, NameB, NameIndex} :
        getFileContent(fileName) = FirstContentByName(fileName)

\* a name the initial selection prefers: it starts with "readme" in any
\* case or is index.html
IsStartName(name) ==
    (name # <<>> /\ ToLowerTok(name[1]) = "readme") \/ name = NameIndex

\* C22: After ingestion, from a native directory or from a flat list, the
\* item opened is a FILE whose name starts with "readme" in any case or is
\* index.html whenever the ingested tree holds such a file; otherwise it is
\* the first top-level entry; nothing is opened only when the ingested tree
\* is empty.
C22_InitialFile ==
    [][(/\ projectState = "WELCOME"
        /\ projectState' = "EDITING"
        /\ \/ \E fileList \in FileLists : processInputFiles(fileList)
           \/ \E d \in HostDirs : openRealFolder(d))
       => LET tree == AllNodes(fileSystem')
              rootChildren == fileSystem'[1].children
              starts == {k \in 1..Len(tree) :
                            tree[k].type = "FILE" /\ IsStartName(tree[k].name)}
          IN  IF starts # {}
              THEN \E k \in starts : activeTabId' = tree[k].id
              ELSE IF rootChildren # <<>>
              THEN activeTabId' = rootChildren[1].id
              ELSE activeTabId' = Null]_vars

\* the ids ingestion is to yield below a directory: every entry that can
\* be handled, and below a directory entry its own, when the listing of the
\* directory runs to its end; none when the listing throws
RECURSIVE IngestedIds(_, _)
IngestedIds(dirHandle, parentId) ==
    IF dirHandle.failsAt # 0 THEN {}
    ELSE UNION { LET entry == dirHandle.entries[i]
                     id == parentId \o US \o entry.name
                 IN  IF entry.throws THEN {}
                     ELSE IF entry.kind = "file" THEN {id}
                     ELSE {id} \cup IngestedIds(entry, id)
                 : i \in 1..Len(dirHandle.entries) }

\* C23: During native directory ingestion an entry that fails is the only
\* one left out, the other entries of its directory are ingested; a listing
\* that fails, at whatever point, leaves its directory with no children and
\* the siblings and ancestors of that directory are ingested all the same.
C23_RestrictedEntries ==
    [][\A d \in RestrictedDirs :
          (projectState = "WELCOME" /\ openRealFolder(d))
          => LET below == AllNodes(fileSystem'[1].children)
             IN  /\ fileSystem'[1].id = ROOT
                 /\ {below[k].id : k \in 1..Len(below)} = IngestedIds(d, ROOT)
                 /\ Len(below) = Cardinality(IngestedIds(d, ROOT))]_vars

\* C23 witness: of b, a (holding b and c) and c, b was left out, a is there
\* with no children and c is there
C23_Witness ==
    /\ fileSystem # <<>>
    /\ fileSystem[1].handle = "directory"
    /\ Len(fileSystem[1].children) = 2
    /\ fileSystem[1].children[1].name = NameA
    /\ fileSystem[1].children[1].type = "FOLDER"
    /\ fileSystem[1].children[1].children = <<>>
    /\ fileSystem[1].children[2].name = NameC

\* the tokens of a line: what stands between the runs of spaces
Tokens(cmd) ==
    LET nonEmpty(p) == p # <<>>
    IN  SelectSeq(SplitOn(cmd, SP), nonEmpty)

\* C24: For a line whose tokens are separated by runs of one or more
\* spaces the command is the first token and the argument the second, and
\* echo returns the tokens after the first joined by one space each.
C24_Tokens ==
    [][(last.phase = "typed" /\ last'.phase = "done")
       => LET tokens == Tokens(last.arg)
          IN  /\ <<last'.cmd>> = tokens[1]
              /\ last'.cmd \in {"cd", "echo"}
                    => last'.arg = IF Len(tokens) > 1 THEN tokens[2] ELSE NoArg
              /\ last'.cmd = "echo" => last'.result = Join(Tail(tokens), <<SP>>)]_vars

\* the nodes of the subtree of a node, the node included
SubtreeNodes(node) ==
    {AllNodes(<<node>>)[k] : k \in 1..Len(AllNodes(<<node>>))}

\* C25: a successful rm removes the subtree of the one child of the current
\* directory the name resolved to and nothing else: every node outside that
\* subtree is still found by find afterwards.
C25_RmFrame ==
    [][\A target \in {Tree[k] : k \in 1..Len(Tree)} :
          RmSucceeds(target) =>
              \A k \in 1..Len(Tree) :
                  Tree[k] \notin SubtreeNodes(target)
                  => findNode(fileSystem', Tree[k].id) # Nil]_vars

\* a node without what is below it
Shallow(node) == [node EXCEPT !.children = <<>>]

\* C26: updateContent(id, text) replaces the content of the FILE node with
\* that id and leaves every other node as it was; when the id resolves to
\* no node or to a FOLDER node the tree is unchanged.
C26_UpdateFrame ==
    [][\A text \in {Chars(1), Chars(2)} :
          updateFileContent(activeTabId, text)
          => LET target == findNode(fileSystem, activeTabId)
                 after == AllNodes(fileSystem')
             IN  IF target = Nil THEN fileSystem' = fileSystem
                 ELSE IF target.type = "FOLDER" THEN fileSystem' = fileSystem
                 ELSE /\ Len(after) = Len(Tree)
                      /\ \A k \in 1..Len(Tree) :
                            IF Tree[k].id = activeTabId /\ Tree[k].type = "FILE"
                            THEN after[k] = [Tree[k] EXCEPT !.content = text,
                                                            !.hasContent = TRUE]
                            ELSE Shallow(after[k]) = Shallow(Tree[k])]_vars

\* the step taken is a mkdir, touch or code that added a Virtual node
VirtualNodeAdded ==
    \/ last'.cmd = "mkdir" /\ last'.result = VirtualDirCreated(last'.arg)
    \/ last'.cmd \in {"touch", "code"} /\ last'.result = VirtualFileCreated(last'.arg)

\* C27: addChild(parentId, node) appends node as the last child of the
\* FOLDER with id parentId, marks that folder open and changes no other
\* node; when parentId resolves to no node or to a FILE node the tree is
\* unchanged.
C27_AddChildFrame ==
    [][VirtualNodeAdded
       => LET parentId == currentDirId
              target == findNode(fileSystem, parentId)
              after == AllNodes(fileSystem')
          IN  IF target = Nil THEN fileSystem' = fileSystem
              ELSE IF target.type = "FILE" THEN fileSystem' = fileSystem
              ELSE LET t == CHOOSE k \in 1..Len(Tree) :
                               /\ Tree[k].id = parentId
                               /\ \A j \in 1..(k - 1) : Tree[j].id # parentId
                       p == t + Len(AllNodes(target.children))
                   IN  /\ Len(after) = Len(Tree) + 1
                       /\ after[p + 1].name = last'.arg
                       /\ after[p + 1].parentId = parentId
                       /\ after[t] = [target EXCEPT
                                         !.children = Append(target.children, after[p + 1]),
                                         !.hasChildren = TRUE,
                                         !.isOpen = TRUE]
                       /\ \A k \in 1..Len(Tree) :
                             k # t => Shallow(after[IF k <= p THEN k ELSE k + 1])
                                        = Shallow(Tree[k])]_vars

\* C28: the 5 MiB guard holds for every first access to a Native text-like
\* file without resident content: cat on such a file of more than
\* 5*1024*1024 bytes does not decode the whole file as text.
C28_CatSizeGuard ==
    [][\A i \in 1..Len(pending) : \A f \in HostFilesSized :
          (CatResolved(i, f) /\ f.size > 5 * 1024 * 1024) => ~last'.decoded]_vars

\* the step taken is a cd <name> that went through
CdSucceeds ==
    /\ last'.cmd = "cd"
    /\ last'.arg \notin {NoArg, DotDot}
    /\ last'.result = <<>>
    /\ Len(termPath') = Len(termPath) + 1

\* C29: after a successful cd <name> the directory later commands work on,
\* the node find returns for the last id of the stack, is the FOLDER named
\* <name> that is a child of the previous current directory.
C29_CdEntersNamedFolder ==
    [][CdSucceeds
       => LET now == findNode(fileSystem', termPath'[Len(termPath')])
          IN  /\ now # Nil
              /\ now.type = "FOLDER"
              /\ now.name = last'.arg
              /\ currentDirNode # Nil
              /\ \E k \in 1..Len(currentDirNode.children) :
                    currentDirNode.children[k] = now]_vars

\* the node find returns for the i-th id of the stack
StackNode(i) == findNode(fileSystem, termPath[i])

\* C30: with commands run one after another from the stack [root], after
\* any sequence of cd, mkdir, touch and rm every id of the stack resolves to
\* a FOLDER node and each entry is a child of the entry before it; the
\* current directory is never lost.
C30_StackResolves ==
    projectState = "EDITING" =>
        \A i \in 1..Len(termPath) :
            /\ StackNode(i) # Nil
            /\ StackNode(i).type = "FOLDER"
            /\ i > 1 => /\ StackNode(i - 1) # Nil
                        /\ \E k \in 1..Len(StackNode(i - 1).children) :
                              StackNode(i - 1).children[k] = StackNode(i)

\* C31: when the content of the active file is edited while a native save
\* of that file is pending, the tab is still marked dirty after the save
\* completes: a save never clears the dirty mark for content it did not
\* write.
C31_SaveKeepsLaterEdit ==
    [][\A i \in 1..Len(pending) :
          (/\ SaveResolved(i)
           /\ findNode(fileSystem, pending[i].targetId) # Nil
           /\ findNode(fileSystem, pending[i].targetId).content # pending[i].node.content)
          => \A t \in 1..Len(openTabs') :
                openTabs'[t].id = pending[i].targetId => openTabs'[t].isDirty]_vars

\* the ids of a list of tabs
TabIds(tabs) == {tabs[k].id : k \in 1..Len(tabs)}

\* C32: opening a file never removes another tab from the open-tab list:
\* when a tab is opened or closed while a host read is pending, the open-tab
\* list after the read completes holds every tab that was open before the
\* completion and the file that was read, and nothing else.
C32_OpenKeepsTabs ==
    [][\A i \in 1..Len(pending) :
          ((\E f \in HostFiles : FileClickResolved(i, f)) \/ FileClickRejected(i))
          => TabIds(openTabs') = TabIds(openTabs) \cup {pending[i].node.id}]_vars

\* C33: after any sequence of file opens, tab closes, settings opens and rm
\* commands the active tab id is null or the id of a tab of the open-tab
\* list; closing the active tab makes the last remaining tab active, or
\* none when no tab remains.
C33_ActiveTabOpen ==
    /\ [](activeTabId = Null \/ activeTabId \in TabIds(openTabs))
    /\ [][(handleTabClose(activeTabId) /\ activeTabId # Null)
          => activeTabId' = IF openTabs' = <<>> THEN Null
                            ELSE openTabs'[Len(openTabs')].id]_vars

\* C34: after the tree is replaced by opening another project while tabs
\* are open, every tab of the open-tab list other than the settings tab has
\* an id that resolves to a node of the current tree.
C34_TabsResolveAfterReopen ==
    [][(/\ openTabs # <<>>
        /\ fileSystem' # fileSystem
        /\ \/ createVirtualProject
           \/ \E d \in HostDirs : openRealFolder(d)
           \/ \E fileList \in FileLists : processInputFiles(fileList))
       => \A t \in 1..Len(openTabs') :
             \/ openTabs'[t].id = SettingsId
             \/ findNode(fileSystem', openTabs'[t].id) # Nil]_vars

\* C35: flat-list ingestion of a list of pairwise distinct relative paths,
\* whose segment names may hold a '_', gives a tree in which the ids of the
\* nodes are pairwise distinct.
C35_IngestUniqueIds ==
    [][(/\ projectState = "WELCOME"
        /\ projectState' = "EDITING"
        /\ \E fileList \in DistinctPathLists : processInputFiles(fileList))
       => LET after == AllNodes(fileSystem')
          IN  \A m, n \in 1..Len(after) : m # n => after[m].id # after[n].id]_vars

====
